---- MODULE Spec2Model ----
(***************************************************************************)
(* Model of lmfdb/modular_forms/elliptic_modular_forms/web_newform.py:     *)
(* label validation, DimGrid, the q-expansion formatter and the WebNewform *)
(* record (construction by label and its display helpers).                 *)
(*                                                                         *)
(* Python strings are modelled as sequences of one-character strings (or   *)
(* of indivisible multi-character tokens where the code only concatenates  *)
(* them), so that a regular expression, str() of an integer and a          *)
(* "first character" test are computed character by character.           *)
(***************************************************************************)
EXTENDS Integers, Sequences, FiniteSets, TLC

VARIABLES
    lbl,        \* valid_label: the string under test
    lblValid,   \* valid_label: <<>> before the call, <<b>> after it returned b
    pc,         \* request: "idle", "ready" (WebNewform constructed), "failed"
    newform,    \* request: the WebNewform's attributes (self.__dict__), or None
    err,        \* request: the exception by_label raised, or None
    dblog,      \* request: the data-store calls made so far, in order
    out,        \* request: what the last display helper returned or raised
    operands,   \* DimGrid arithmetic: <<left, right>> of the last `+` evaluated, or <<>>
    acc,        \* DimGrid arithmetic: the value of the last expression evaluated
    eigseq,     \* formatter: the argument of eigs_as_seqseq_to_qexp
    qout        \* formatter: <<>> before the call, <<s>> after it returned s

vars == <<lbl, lblValid, pc, newform, err, dblog, out, operands, acc, eigseq, qout>>

None == [t |-> "None"]

(***************************************************************************)
(* Strings                                                                 *)
(***************************************************************************)
Digits == {"0", "1", "2", "3", "4", "5", "6", "7", "8", "9"}

DigitSeq == <<"0", "1", "2", "3", "4", "5", "6", "7", "8", "9">>

LowerSeq == <<"a", "b", "c", "d", "e", "f", "g", "h", "i", "j", "k", "l", "m",
              "n", "o", "p", "q", "r", "s", "t", "u", "v", "w", "x", "y", "z">>

Lower == {LowerSeq[i] : i \in 1..Len(LowerSeq)}

\* All strings over the alphabet A of length at most n.
StringsUpTo(A, n) == UNION {[1..k -> A] : k \in 0..n}

\* str(n) / '%s' % n for a Python integer: decimal digits, most significant first.
RECURSIVE StrNat(_)
StrNat(n) == IF n < 10 THEN <<DigitSeq[n + 1]>>
             ELSE StrNat(n \div 10) \o <<DigitSeq[(n % 10) + 1]>>

StrInt(n) == IF n < 0 THEN <<"-">> \o StrNat(-n) ELSE StrNat(n)

(***************************************************************************)
(* valid_label  (LABEL_RE = ^[0-9]+\.[0-9]+\.[a-z]+\.[a-z]+$ , re.match)   *)
(***************************************************************************)
\* The greedy run [C]+ / [C]*: the first position at or after i whose
\* character is not in C (Len(s)+1 when the run reaches the end).
RECURSIVE SkipClass(_, _, _)
SkipClass(s, i, C) == IF i <= Len(s) /\ s[i] \in C THEN SkipClass(s, i + 1, C) ELSE i

\* Python's `$` without re.MULTILINE: matches at the very end of the string
\* and also just before a newline that is the last character of the string.
AtDollar(s, i) == \/ i = Len(s) + 1
                  \/ i = Len(s) /\ s[i] = "\n"

\* A literal dot at position i.
DotAt(s, i) == i <= Len(s) /\ s[i] = "."

\* The pattern's classes are disjoint from the dot that follows each run, so
\* the greedy run is the only way to match and no backtracking is needed.
LABEL_RE_match(s) ==
    LET i1 == SkipClass(s, 1, Digits)
        i2 == SkipClass(s, i1 + 1, Digits)
        i3 == SkipClass(s, i2 + 1, Lower)
        i4 == SkipClass(s, i3 + 1, Lower)
    IN  /\ i1 > 1
        /\ DotAt(s, i1)
        /\ i2 > i1 + 1
        /\ DotAt(s, i2)
        /\ i3 > i2 + 1
        /\ DotAt(s, i3)
        /\ i4 > i3 + 1
        /\ AtDollar(s, i4)

valid_label(label) == LABEL_RE_match(label)

(***************************************************************************)
(* Python values and exceptions                                            *)
(***************************************************************************)
IntV(n) == [t |-> "int", v |-> n]

Raise(type, msg) == [t |-> "raise", type |-> type, msg |-> msg]

IsRaise(x) == x.t = "raise"

(***************************************************************************)
(* DimGrid                                                                 *)
(***************************************************************************)
Spaces == {"M", "S", "E"}

Types == {"all", "new", "old"}

GridV(g) == [t |-> "DimGrid", grid |-> g]

IsGrid(x) == x.t = "DimGrid"

\* DimGrid.__init__(grid=None)
DimGrid(grid) ==
    IF grid = None
    THEN GridV([X \in Spaces |-> [typ \in Types |-> 0]])
    ELSE GridV(grid)

\* DimGrid.__add__(self, other)
DimGrid_add(self, other) ==
    IF other.t = "int" /\ other.v = 0
    THEN self
    ELSE IF IsGrid(other)
         THEN DimGrid([X \in Spaces |->
                         [typ \in Types |-> self.grid[X][typ] + other.grid[X][typ]]])
         ELSE Raise("TypeError", "")

\* Python's evaluation of `left + right`: type(left).__add__ is tried first; the
\* class DimGrid defines __add__ and no __radd__, and int.__add__ answers
\* NotImplemented for a non-number, so `int + DimGrid` (the first step of
\* sum(grids), which starts from 0) has no implementation and raises TypeError.
\* None defines neither method.
PyAdd(left, right) ==
    IF IsGrid(left) THEN DimGrid_add(left, right)
    ELSE IF left.t = "int" /\ right.t = "int" THEN IntV(left.v + right.v)
    ELSE Raise("TypeError", "unsupported operand type(s) for +")

\* The plausible slip in from_db: the old part of M forgets the Eisenstein newforms.
from_db_mutant(data) ==
    DimGrid([M |-> [all |-> data.mf_dim,
                    new |-> data.dim + data.eis_new_dim,
                    old |-> data.mf_dim - data.dim],
             S |-> [all |-> data.cusp_dim,
                    new |-> data.dim,
                    old |-> data.cusp_dim - data.dim],
             E |-> [all |-> data.eis_dim,
                    new |-> data.eis_new_dim,
                    old |-> data.eis_dim - data.eis_new_dim]])

\* DimGrid.from_db(data)
from_db(data) ==
    DimGrid([M |-> [all |-> data.mf_dim,
                    new |-> data.dim + data.eis_new_dim,
                    old |-> data.mf_dim - data.dim - data.eis_new_dim],
             S |-> [all |-> data.cusp_dim,
                    new |-> data.dim,
                    old |-> data.cusp_dim - data.dim],
             E |-> [all |-> data.eis_dim,
                    new |-> data.eis_new_dim,
                    old |-> data.eis_dim - data.eis_new_dim]])

(***************************************************************************)
(* eigs_as_seqseq_to_qexp                                                  *)
(***************************************************************************)
\* term = sum([Rgens[i]*eigseq[j][i] for i in range(d)]): an element of
\* QQ[beta1..beta_{d-1}], kept as its coefficient vector on 1, beta1, ...,
\* beta_{d-1} (these are linearly independent, so the vector is the element).
Term(row, d) == SubSeq(row, 1, d)

\* term != 0
TermNonzero(term) == \E i \in 1..Len(term) : term[i] # 0

\* The order in which Sage prints the monomials of a linear polynomial:
\* beta1, beta2, ..., and the constant last.  Position k of the printout is
\* index PrintIndex(k, d) of the coefficient vector.
PrintIndex(k, d) == IF k < d THEN k + 1 ELSE 1

\* The monomial c * beta_{i-1} (i = 1: the constant c) without its sign.
MonomialAbs(c, i) ==
    LET a == IF c < 0 THEN -c ELSE c
    IN  IF i = 1 THEN StrNat(a)
        ELSE (IF a = 1 THEN <<>> ELSE StrNat(a)) \o <<"\\beta_{">> \o StrNat(i - 1) \o <<"}">>

\* latex(term): the nonzero monomials in print order, the first with a leading
\* "-" when negative, the others joined by "+" or "-".
RECURSIVE LatexPolyFrom(_, _, _)
LatexPolyFrom(term, k, first) ==
    IF k > Len(term) THEN <<>>
    ELSE LET i == PrintIndex(k, Len(term))
             c == term[i]
         IN  IF c = 0 THEN LatexPolyFrom(term, k + 1, first)
             ELSE (IF c < 0 THEN <<"-">> ELSE IF first THEN <<>> ELSE <<"+">>)
                  \o MonomialAbs(c, i) \o LatexPolyFrom(term, k + 1, FALSE)

LatexPoly(term) == LatexPolyFrom(term, 1, TRUE)

NumMonomials(term) == Cardinality({i \in 1..Len(term) : term[i] # 0})

\* q**j as typeset
LatexQ(j) == IF j = 0 THEN <<>>
             ELSE IF j = 1 THEN <<"q">>
             ELSE <<"q", "^{">> \o StrNat(j) \o <<"}">>

\* latex(term*(q**j)) for term != 0: Sage's typesetting of a one-term power
\* series.  A coefficient with more than one monomial is parenthesised when
\* j > 0; a coefficient 1 or -1 in front of q is left out but for its sign.
Latex(term, j) ==
    IF j = 0 THEN LatexPoly(term)
    ELSE IF NumMonomials(term) > 1
         THEN <<"\\left(">> \o LatexPoly(term) \o <<"\\right)">> \o LatexQ(j)
         ELSE IF term[1] = 1 THEN LatexQ(j)
         ELSE IF term[1] = -1 THEN <<"-">> \o LatexQ(j)
         ELSE LatexPoly(term) \o LatexQ(j)

\* A slip in the sign test of the loop: the "+" is put in front of every
\* term after the first, whatever its first character.
EmitTerm_mutant(s, latexterm) ==
    s \o <<"\\(">> \o (IF s # <<>> THEN <<"+">> \o latexterm ELSE latexterm) \o <<"\\)">>

\* The body of `if term != 0:` : prefix "+" when s is not empty and the
\* rendering does not start with "-", then append '\(' + latexterm + '\)'.
EmitTerm(s, latexterm) ==
    s \o <<"\\(">>
      \o (IF s # <<>> /\ latexterm[1] # "-" THEN <<"+">> \o latexterm ELSE latexterm)
      \o <<"\\)">>

\* for j in range(prec): ... ; the value of s after the iterations j..prec-1.
RECURSIVE QexpLoop(_, _, _, _)
QexpLoop(eigs, d, j, s) ==
    IF j >= Len(eigs) THEN s
    ELSE LET term == Term(eigs[j + 1], d)
         IN  IF TermNonzero(term)
             THEN QexpLoop(eigs, d, j + 1, EmitTerm(s, Latex(term, j)))
             ELSE QexpLoop(eigs, d, j + 1, s)

\* '\(+O(q^{%s})\)' % prec
Remainder(prec) == <<"\\(", "+", "O(q^{">> \o StrNat(prec) \o <<"})", "\\)">>

eigs_as_seqseq_to_qexp(eigs) ==
    LET prec == Len(eigs)
    IN  IF prec = 0 THEN <<"O(1)">>
        ELSE QexpLoop(eigs, Len(eigs[1]), 0, <<>>) \o Remainder(prec)

(***************************************************************************)
(* Collaborators of WebNewform                                             *)
(***************************************************************************)
\* A row column that is missing from the dictionary (as opposed to None).
Absent == [t |-> "absent"]

StrV(tokens) == [t |-> "str", v |-> tokens]

ListV(xs) == [t |-> "list", v |-> xs]

BoolV(b) == [t |-> "bool", v |-> b]

\* self.__dict__.get(key): None for a missing key
DictGet(value) == IF value = Absent THEN None ELSE value

\* Python truth value of an optional int / str / list / bool
Truthy(x) ==
    IF x.t = "int" THEN x.v # 0
    ELSE IF x.t = "str" \/ x.t = "list" THEN x.v # <<>>
    ELSE IF x.t = "bool" THEN x.v
    ELSE FALSE

\* sage.databases.cremona.cremona_letter_code(n): n written in base 26 with the
\* digits a = 0, ..., z = 25, most significant first ("0 - a 25 - z 26 - ba
\* 51 - bz 52 - ca"); the loop `s = chr(n%26+97) + s; n //= 26`.
RECURSIVE CremonaLoop(_, _)
CremonaLoop(n, s) ==
    IF n = 0 THEN s ELSE CremonaLoop(n \div 26, <<LowerSeq[(n % 26) + 1]>> \o s)

cremona_letter_code(n) ==
    IF n < 0 THEN Raise("ValueError", <<"Cremona letter codes are only defined for non-negative integers">>)
    ELSE IF n = 0 THEN StrV(<<"a">>)
    ELSE StrV(CremonaLoop(n, <<>>))

\* lmfdb.characters.utils.url_character(type='Dirichlet', modulus=, number=)
url_character(modulus, number) ==
    <<"/Character/Dirichlet/">> \o StrInt(modulus) \o <<"/">> \o StrInt(number)

\* lmfdb.WebNumberField.nf_display_knowl(label, name): the knowl link for the
\* number field `label`, shown as `name`.
nf_display_knowl(label, name) ==
    <<"<a knowl=nf.field.data label=">> \o label \o <<">">> \o name \o <<"</a>">>

\* lmfdb.number_fields.number_field.field_pretty(label)
field_pretty(label) == <<"pretty(">> \o label \o <<")">>

\* web_latex_split_on_pm(web_latex(coeff_to_power_series(coeffs, prec=prec),
\* enclose=False)): the typeset integer power series, kept as its data.
web_latex_power_series(coeffs, prec) ==
    [t |-> "series", coeffs |-> coeffs, prec |-> prec]

\* coeff_to_power_series([0,1], prec=2)._latex_()
FallbackQexp == StrV(<<"q", "+", "O(q^{", "2", "})">>)

\* One call of the data store, with what it answered.
DbCall(table, op, result) == [table |-> table, op |-> op, result |-> result]

(***************************************************************************)
(* WebNewform.__init__                                                     *)
(***************************************************************************)
\* `if eigenvals:` (line 91).  search() without a limit hands back an iterator
\* object, and the truth value of an iterator does not depend on what it
\* yields; the source states it: "this will always be true".
EigenvalsTruth(eigenvals) == TRUE

\* A slip in the loop: the trace-only test comes before the index test, so a
\* trace-only row with a wrong index is not reported.
RECURSIVE EigLoop_mutant(_, _, _)
EigLoop_mutant(eigenvals, i, qexp) ==
    IF i >= Len(eigenvals)
    THEN [raised |-> None, has_exact_qexp |-> TRUE, qexp |-> qexp]
    ELSE LET ev == eigenvals[i + 1]
         IN  IF ~Truthy(DictGet(ev.an))
             THEN [raised |-> None, has_exact_qexp |-> FALSE, qexp |-> qexp]
             ELSE IF ev.n # i + 1
             THEN [raised |-> Raise("ValueError", <<"Missing eigenvalue">>),
                   has_exact_qexp |-> TRUE, qexp |-> qexp]
             ELSE EigLoop_mutant(eigenvals, i + 1, Append(qexp, ev.an.v))

\* for i, ev in enumerate(eigenvals): ... (lines 95-102), from iteration i on,
\* with self.qexp as built so far.
RECURSIVE EigLoop(_, _, _)
EigLoop(eigenvals, i, qexp) ==
    IF i >= Len(eigenvals)
    THEN [raised |-> None, has_exact_qexp |-> TRUE, qexp |-> qexp]
    ELSE LET ev == eigenvals[i + 1]
         IN  IF ev.n # i + 1
             THEN [raised |-> Raise("ValueError", <<"Missing eigenvalue">>),
                   has_exact_qexp |-> TRUE, qexp |-> qexp]
             ELSE IF ~Truthy(DictGet(ev.an))
             THEN [raised |-> None, has_exact_qexp |-> FALSE, qexp |-> qexp]
             ELSE EigLoop(eigenvals, i + 1, Append(qexp, ev.an.v))

\* Lines 90-105: has_exact_qexp, qexp and qexp_prec from the search result.
Eigenvalues(dim, eigenvals) ==
    IF EigenvalsTruth(eigenvals)
    THEN LET zero == [k \in 1..dim |-> 0]
             r == EigLoop(eigenvals, 0, <<zero>>)
         IN  [raised |-> r.raised, has_exact_qexp |-> r.has_exact_qexp,
              qexp |-> ListV(r.qexp), qexp_prec |-> IntV(Len(r.qexp) - 1)]
    ELSE [raised |-> None, has_exact_qexp |-> FALSE, qexp |-> Absent, qexp_prec |-> Absent]

\* A slip in line 115: the orbit index is handed to the letter coding as it is.
CharOrbitLabel_mutant(level, char_orbit) ==
    LET code == cremona_letter_code(char_orbit)
    IN  IF IsRaise(code) THEN code
        ELSE StrV(<<"\\(">> \o StrInt(level) \o <<"\\)", ".">> \o code.v)

\* Line 115: "\(" + str(self.level) + "\)." + cremona_letter_code(self.char_orbit - 1)
CharOrbitLabel(level, char_orbit) ==
    LET code == cremona_letter_code(char_orbit - 1)
    IN  IF IsRaise(code) THEN code
        ELSE StrV(<<"\\(">> \o StrInt(level) \o <<"\\)", ".">> \o code.v)

\* '\chi_{%s}(%s,\cdot)' % (self.level, self.char_conrey)
CharConreyStr(level, char_conrey) ==
    <<"\\chi_{">> \o StrInt(level) \o <<"}(">> \o StrInt(char_conrey) \o <<",\\cdot)">>

\* Lines 117-123: the properties box.
Properties(label, weight, char_orbit, char_conrey_str, dim, is_CM) ==
    <<  <<"Label", label>>,
        <<"Weight", StrInt(weight)>>,
        <<"Character Orbit", StrInt(char_orbit)>>,
        <<"Representative Character", <<"\\(">> \o char_conrey_str \o <<"\\)">> >>,
        <<"Dimension", StrInt(dim)>> >>
    \o (IF Truthy(DictGet(is_CM))
        THEN << <<"CM", <<IF is_CM.v THEN "True" ELSE "False">> >> >>
        ELSE <<>>)

\* WebNewform.__init__(self, data, space): `newspace` is the mf_newspaces row
\* of data.space_label and `eigenvals` what mf_hecke_nf.search answers.  The
\* value is [raised, self, calls]: the exception or None, the attributes set
\* when it ends, and the data-store calls made.
WebNewform(data, space, newspace, eigenvals) ==
    LET chardata == IF space = None THEN newspace ELSE space
        calls1 == IF space = None
                  THEN <<DbCall("mf_newspaces", "lookup", newspace)>>
                  ELSE <<>>
        calls2 == Append(calls1, DbCall("mf_hecke_nf", "search", eigenvals))
        eig == Eigenvalues(data.dim, eigenvals)
        calls3 == Append(calls2, DbCall("mf_newspaces", "lookup", newspace.conrey_labels))
        char_conrey == newspace.conrey_labels[1]
        char_conrey_str == CharConreyStr(data.level, char_conrey)
        orbit_label == CharOrbitLabel(data.level, data.char_orbit)
    IN  IF eig.raised # None
        THEN [raised |-> eig.raised, self |-> None, calls |-> calls2]
        ELSE IF IsRaise(orbit_label)
        THEN [raised |-> orbit_label, self |-> None, calls |-> calls3]
        ELSE [raised |-> None,
              calls |-> calls3,
              self |-> [_data |-> data,
                        label |-> data.label,
                        level |-> data.level,
                        weight |-> data.weight,
                        dim |-> data.dim,
                        char_orbit |-> data.char_orbit,
                        cm_disc |-> data.cm_disc,
                        nf_label |-> data.nf_label,
                        is_CM |-> data.is_CM,
                        dim_grid |-> from_db(data),
                        conrey_labels |-> chardata.conrey_labels,
                        cyc_degree |-> chardata.cyc_degree,
                        has_exact_qexp |-> eig.has_exact_qexp,
                        qexp |-> eig.qexp,
                        qexp_prec |-> eig.qexp_prec,
                        char_conrey |-> char_conrey,
                        char_conrey_str |-> char_conrey_str,
                        char_conrey_link |-> url_character(data.level, char_conrey),
                        inner_twist |-> [k \in 1..Len(data.inner_twist) |->
                                           <<data.inner_twist[k],
                                             url_character(data.level, data.inner_twist[k])>>],
                        char_orbit_label |-> orbit_label.v,
                        properties |-> Properties(data.label, data.weight, data.char_orbit,
                                                  char_conrey_str, data.dim, data.is_CM),
                        bread |-> <<>>,
                        title |-> <<"Newform ">> \o data.label,
                        friends |-> <<>>]]

(***************************************************************************)
(* WebNewform.by_label and the display helpers                             *)
(***************************************************************************)
\* by_label(label): `data` is what mf_newforms.lookup(label) answers (a row or
\* None); `newspace` and `eigenvals` are what the constructor's calls answer.
\* The value is [raised, self, calls].
by_label_result(label, data, newspace, eigenvals) ==
    IF ~valid_label(label)
    THEN [raised |-> Raise("ValueError", <<"Invalid newform label ">> \o label \o <<".">>),
          self |-> None, calls |-> <<>>]
    ELSE LET lookup == <<DbCall("mf_newforms", "lookup", data)>>
         IN  IF data = None
             THEN [raised |-> Raise("ValueError", <<"Newform ">> \o label \o <<" not found">>),
                   self |-> None, calls |-> lookup]
             ELSE LET r == WebNewform(data, None, newspace, eigenvals)
                  IN  [raised |-> r.raised, self |-> r.self, calls |-> lookup \o r.calls]

\* WebNewform.field_knowl
field_knowl(self) ==
    LET label == DictGet(self.nf_label)
    IN  IF Truthy(label)
        THEN StrV(nf_display_knowl(label.v, field_pretty(label.v)))
        ELSE StrV(<<"Not in LMFDB">>)

\* A slip in field_display: the two special cases answer the same symbol.
field_display_mutant(self) ==
    LET label == DictGet(self.nf_label)
    IN  IF label = None
        THEN StrV(<<"\\(\\Q\\)">>)
        ELSE IF label = StrV(<<"1.1.1.1">>)
        THEN StrV(nf_display_knowl(self.nf_label.v, <<"\\(\\Q\\)">>))
        ELSE StrV(<<"\\(\\Q(\\nu)\\) = ">> \o field_knowl(self).v)

\* WebNewform.field_display
field_display(self) ==
    LET label == DictGet(self.nf_label)
    IN  IF label = None
        THEN StrV(<<"\\(\\Q(\\nu)\\)">>)
        ELSE IF label = StrV(<<"1.1.1.1">>)
        THEN StrV(nf_display_knowl(self.nf_label.v, <<"\\(\\Q\\)">>))
        ELSE StrV(<<"\\(\\Q(\\nu)\\) = ">> \o field_knowl(self).v)

\* WebNewform.cm_field_knowl: self.cm_disc is a plain attribute access, `== 0`
\* is False for None, and `-self.cm_disc` is then a TypeError.
cm_field_knowl(self) ==
    IF self.cm_disc = Absent
    THEN Raise("AttributeError", <<"'WebNewform' object has no attribute 'cm_disc'">>)
    ELSE IF self.cm_disc.t = "int" /\ self.cm_disc.v = 0
    THEN Raise("ValueError", <<"Not CM">>)
    ELSE IF self.cm_disc.t # "int"
    THEN Raise("TypeError", <<"bad operand type for unary -">>)
    ELSE LET cm_label == <<"2.0.">> \o StrInt(-self.cm_disc.v) \o <<".1">>
         IN  StrV(nf_display_knowl(cm_label, field_pretty(cm_label)))

Min(a, b) == IF a < b THEN a ELSE b

\* A slip in q_expansion: the exact coefficients are shown whenever some were
\* collected, whether or not the record was downgraded to trace-only.
q_expansion_mutant(self, format, prec_max) ==
    IF self.has_exact_qexp \/ self.qexp_prec.v > 0
    THEN LET prec == IF format = "all" THEN self.qexp_prec.v
                     ELSE Min(self.qexp_prec.v, prec_max)
         IN  IF self.dim = 1
             THEN web_latex_power_series([n \in 1..(prec + 1) |-> self.qexp.v[n][1]], prec)
             ELSE StrV(eigs_as_seqseq_to_qexp(SubSeq(self.qexp.v, 1, prec)))
    ELSE FallbackQexp

\* WebNewform.q_expansion(format, prec_max)
q_expansion(self, format, prec_max) ==
    IF self.has_exact_qexp
    THEN LET prec == IF format = "all" THEN self.qexp_prec.v
                     ELSE Min(self.qexp_prec.v, prec_max)
         IN  IF self.dim = 1
             THEN web_latex_power_series([n \in 1..(prec + 1) |-> self.qexp.v[n][1]], prec)
             ELSE StrV(eigs_as_seqseq_to_qexp(SubSeq(self.qexp.v, 1, prec)))
    ELSE FallbackQexp

NoCall == [call |-> "", args |-> <<>>, ret |-> None]

Called(name, args, ret) == [call |-> name, args |-> args, ret |-> ret]

(***************************************************************************)
(* Bounds and input sets                                                   *)
(***************************************************************************)
MaxLabelLen == 8

MaxCell == 2

MaxPrec == 2

MaxD == 2

MaxEigs == 3

MaxN == 4

MaxOrbit == 30

MaxPrecMax == 2

\* One character of each kind the pattern tells apart, and the newline.
LabelAlphabet == {"1", ".", "a", "A", "\n"}

Labels == StringsUpTo(LabelAlphabet, MaxLabelLen)

\* The labels requests ask for: the same, without the upper-case letter.
RequestLabels == StringsUpTo({"1", ".", "a", "\n"}, MaxLabelLen)

GoodLabel == <<"1", ".", "1", "2", ".", "a", ".", "a">>

\* The labels the requests of the construction and display runs ask for.
FewLabels == {GoodLabel, <<"1", ".", "1", "2", ".", "a">>}

\* The values of a dimension column of a row.
DimVals == {0, 1}

\* The five dimension columns of a row, independent of each other.
DimRows == [mf_dim : DimVals, dim : DimVals, eis_new_dim : DimVals,
            cusp_dim : DimVals, eis_dim : DimVals]

\* A row of mf_newforms for `label`.
BaseRow(label) ==
    [label |-> label, level |-> 7, weight |-> 12, dim |-> 2, char_orbit |-> 1,
     space_label |-> <<"7.12.a">>, hecke_orbit_code |-> 1, inner_twist |-> <<1, 6>>,
     mf_dim |-> 3, eis_new_dim |-> 1, cusp_dim |-> 2, eis_dim |-> 1,
     cm_disc |-> IntV(0), nf_label |-> Absent, is_CM |-> Absent]

\* The mf_newspaces row of the space of every row above.
NewspaceRow == [label |-> <<"7.12.a">>, conrey_labels |-> <<1, 6>>, cyc_degree |-> 1]

\* The eigenvalue vectors of a form of dimension dim.
AnVectors(dim) == IF dim = 1 THEN {<<1>>, <<-2>>} ELSE {<<1, 3>>, <<0, -1>>}

\* The rows mf_hecke_nf.search can answer for a form of dimension dim: any
\* index in 1..MaxN, with the eigenvalue vector or with the trace only.
EigRows(dim) == [n : 1..MaxN, an : {None} \cup {ListV(v) : v \in AnVectors(dim)}]

\* The search sorts by n (sort=['n']) and n is unique within an orbit: the
\* rows come in strictly increasing order of n.
EigSeqs(dim) ==
    {s \in StringsUpTo(EigRows(dim), MaxEigs) :
        \A i \in 1..(Len(s) - 1) : s[i].n < s[i + 1].n}

\* A few answers of the search, for the runs that are about something else.
FewEigSeqs ==
    { <<>>,
      <<[n |-> 1, an |-> ListV(<<1, 3>>)], [n |-> 2, an |-> ListV(<<0, -1>>)]>>,
      <<[n |-> 1, an |-> ListV(<<1, 3>>)], [n |-> 2, an |-> None]>>,
      <<[n |-> 1, an |-> ListV(<<1, 3>>)], [n |-> 3, an |-> ListV(<<0, -1>>)]>> }

Formats == {"oneline", "short", "all"}

\* Orbit indices: the first MaxOrbit, and the first three-letter codes.
OrbitIndices == (1..MaxOrbit) \cup {676, 677, 678}

Levels == {7, 23}

CmDiscs == {Absent, None, IntV(0), IntV(-4)}

NfLabels == {Absent, None, StrV(<<>>), StrV(<<"1.1.1.1">>), StrV(<<"2.2.5.1">>)}

DisplayRows(label) ==
    {[BaseRow(label) EXCEPT !.level = l, !.char_orbit = o, !.cm_disc = c, !.nf_label = f,
                            !.is_CM = IF c.t = "int" /\ c.v # 0 THEN BoolV(TRUE) ELSE Absent]
       : l \in Levels, o \in OrbitIndices, c \in CmDiscs, f \in NfLabels}

EigenRows(label) == {[BaseRow(label) EXCEPT !.dim = d] : d \in {1, 2}}

\* Coefficients of the vectors handed to the formatter.
CoefVals == {-1, 0, 1, 3}

QexpInputs == UNION {StringsUpTo([1..d -> CoefVals], MaxPrec) : d \in 1..MaxD}

(***************************************************************************)
(* State machine                                                           *)
(***************************************************************************)
InitBase ==
    /\ lbl = <<>>
    /\ lblValid = <<>>
    /\ pc = "idle"
    /\ newform = None
    /\ err = None
    /\ dblog = <<>>
    /\ out = NoCall
    /\ operands = <<>>
    /\ acc = None
    /\ eigseq = <<>>
    /\ qout = <<>>

requestVars == <<pc, newform, err, dblog, out>>

gridVars == <<operands, acc>>

\* ---- valid_label ----
InitLabel ==
    /\ lbl \in Labels
    /\ lblValid = <<>>
    /\ pc = "idle" /\ newform = None /\ err = None /\ dblog = <<>> /\ out = NoCall
    /\ operands = <<>> /\ acc = None /\ eigseq = <<>> /\ qout = <<>>

ValidLabelCall ==
    /\ lblValid = <<>>
    /\ lblValid' = <<valid_label(lbl)>>
    /\ UNCHANGED <<lbl, requestVars, gridVars, eigseq, qout>>

NextLabel == ValidLabelCall

SpecLabel == InitLabel /\ [][NextLabel]_vars

\* ---- eigs_as_seqseq_to_qexp ----
InitQexp ==
    /\ eigseq \in QexpInputs
    /\ qout = <<>>
    /\ lbl = <<>> /\ lblValid = <<>>
    /\ pc = "idle" /\ newform = None /\ err = None /\ dblog = <<>> /\ out = NoCall
    /\ operands = <<>> /\ acc = None

FormatQexp ==
    /\ qout = <<>>
    /\ qout' = <<eigs_as_seqseq_to_qexp(eigseq)>>
    /\ UNCHANGED <<lbl, lblValid, requestVars, gridVars, eigseq>>

NextQexp == FormatQexp

SpecQexp == InitQexp /\ [][NextQexp]_vars

\* ---- DimGrid arithmetic ----
CellsWithin(x, bound) ==
    IsGrid(x) => \A X \in Spaces, typ \in Types :
                    x.grid[X][typ] <= bound /\ x.grid[X][typ] >= -bound

\* What can stand on the other side of `+`: a grid built from a row, the
\* default grid, the integer 0 that sum() starts from, or an absent grid.
Summands == {from_db(row) : row \in DimRows} \cup {DimGrid(None), IntV(0), None}

InitGrid == InitBase

\* DimGrid(), the first value of an expression
GridNew ==
    /\ acc = None
    /\ acc' = DimGrid(None)
    /\ operands' = <<>>
    /\ UNCHANGED <<lbl, lblValid, requestVars, eigseq, qout>>

\* DimGrid.from_db(row), the first value of an expression
GridFromDb(row) ==
    /\ acc = None
    /\ acc' = from_db(row)
    /\ operands' = <<>>
    /\ UNCHANGED <<lbl, lblValid, requestVars, eigseq, qout>>

\* acc + other
GridAddRight(other) ==
    /\ IsGrid(acc)
    /\ CellsWithin(PyAdd(acc, other), MaxCell)
    /\ acc' = PyAdd(acc, other)
    /\ operands' = <<acc, other>>
    /\ UNCHANGED <<lbl, lblValid, requestVars, eigseq, qout>>

\* start + acc: the grid on the right of the value a fold starts from
\* (sum(grids) starts from the integer 0).
GridAddLeft(start) ==
    /\ IsGrid(acc)
    /\ acc' = PyAdd(start, acc)
    /\ operands' = <<start, acc>>
    /\ UNCHANGED <<lbl, lblValid, requestVars, eigseq, qout>>

NextGrid ==
    \/ GridNew
    \/ \E row \in DimRows : GridFromDb(row)
    \/ \E other \in Summands : GridAddRight(other)
    \/ \E start \in {DimGrid(None), IntV(0), None} : GridAddLeft(start)

SpecGrid == InitGrid /\ [][NextGrid]_vars

\* ---- a request: by_label, the display helpers, the end of the request ----
ByLabel(label, data, newspace, eigenvals) ==
    /\ pc = "idle"
    /\ LET r == by_label_result(label, data, newspace, eigenvals)
       IN  /\ pc' = IF r.raised = None THEN "ready" ELSE "failed"
           /\ newform' = r.self
           /\ err' = r.raised
           /\ dblog' = r.calls
    /\ lbl' = label
    /\ UNCHANGED <<lblValid, out, gridVars, eigseq, qout>>

FieldDisplay ==
    /\ pc = "ready"
    /\ out' = Called("field_display", <<>>, field_display(newform))
    /\ UNCHANGED <<lbl, lblValid, pc, newform, err, dblog, gridVars, eigseq, qout>>

FieldKnowl ==
    /\ pc = "ready"
    /\ out' = Called("field_knowl", <<>>, field_knowl(newform))
    /\ UNCHANGED <<lbl, lblValid, pc, newform, err, dblog, gridVars, eigseq, qout>>

CmFieldKnowl ==
    /\ pc = "ready"
    /\ out' = Called("cm_field_knowl", <<>>, cm_field_knowl(newform))
    /\ UNCHANGED <<lbl, lblValid, pc, newform, err, dblog, gridVars, eigseq, qout>>

QExpansion(format, prec_max) ==
    /\ pc = "ready"
    /\ out' = Called("q_expansion", <<format, prec_max>>, q_expansion(newform, format, prec_max))
    /\ UNCHANGED <<lbl, lblValid, pc, newform, err, dblog, gridVars, eigseq, qout>>

\* The response is rendered (or the error page is) and the record discarded.
EndRequest ==
    /\ pc # "idle"
    /\ pc' = "idle"
    /\ newform' = None
    /\ err' = None
    /\ dblog' = <<>>
    /\ out' = NoCall
    /\ lbl' = <<>>
    /\ UNCHANGED <<lblValid, gridVars, eigseq, qout>>

Helpers ==
    \/ FieldDisplay
    \/ FieldKnowl
    \/ CmFieldKnowl
    \/ \E format \in Formats, prec_max \in 0..MaxPrecMax : QExpansion(format, prec_max)
    \/ EndRequest

\* Requests for any label; the store answers with the row or with nothing.
NextByLabel ==
    \/ /\ pc = "idle"
       /\ \E label \in RequestLabels :
          \E data \in {None, BaseRow(label)}, eigenvals \in FewEigSeqs :
             ByLabel(label, data, NewspaceRow, eigenvals)
    \/ Helpers

SpecByLabel == InitBase /\ [][NextByLabel]_vars

\* Requests whose search answers any sequence of eigenvalue rows.
NextEigen ==
    \/ /\ pc = "idle"
       /\ \E label \in FewLabels :
          \E data \in {None} \cup EigenRows(label) :
          \E eigenvals \in (IF data = None THEN FewEigSeqs ELSE EigSeqs(data.dim)) :
             ByLabel(label, data, NewspaceRow, eigenvals)
    \/ Helpers

SpecEigen == InitBase /\ [][NextEigen]_vars

\* Requests for rows with any level, orbit, CM discriminant and field label.
NextDisplay ==
    \/ /\ pc = "idle"
       /\ \E label \in FewLabels :
          \E data \in {None} \cup DisplayRows(label), eigenvals \in FewEigSeqs :
             ByLabel(label, data, NewspaceRow, eigenvals)
    \/ Helpers

SpecDisplay == InitBase /\ [][NextDisplay]_vars

(***************************************************************************)
(* Properties                                                              *)
(***************************************************************************)
\* The four-part shape of a label, stated on the whole string: three dots
\* at positions i < j < k cut it into a non-empty run of digits, a non-empty
\* run of digits, a non-empty run of lower-case letters and a non-empty run
\* of lower-case letters, and there is nothing else in the string.
FourPart(s) ==
    \E i, j, k \in 1..Len(s) :
        /\ 1 < i /\ i + 1 < j /\ j + 1 < k /\ k < Len(s)
        /\ s[i] = "." /\ s[j] = "." /\ s[k] = "."
        /\ \A m \in 1..(i - 1) : s[m] \in Digits
        /\ \A m \in (i + 1)..(j - 1) : s[m] \in Digits
        /\ \A m \in (j + 1)..(k - 1) : s[m] \in Lower
        /\ \A m \in (k + 1)..Len(s) : s[m] \in Lower

\* C4: valid_label(s) is true if and only if the whole of s is four
\* dot-separated parts (digits, digits, lower-case letters, lower-case
\* letters) with no other character anywhere, a trailing newline included.
C4_ValidIffFourPart ==
    lblValid # <<>> => (lblValid[1] <=> FourPart(lbl))

InvalidLabelError(label) ==
    Raise("ValueError", <<"Invalid newform label ">> \o label \o <<".">>)

NotFoundError(label) ==
    Raise("ValueError", <<"Newform ">> \o label \o <<" not found">>)

\* C1: by_label fails with the invalid-label error, with no data-store call
\* made, for every label that is not of the four-part shape; and for a label
\* of that shape whose row the store does not have it fails with the
\* not-found error after the one lookup of the row, with no WebNewform built.
C1_ValidatesBeforeStore ==
    pc # "idle" =>
        /\ ~FourPart(lbl) => (err = InvalidLabelError(lbl) /\ dblog = <<>> /\ newform = None)
        /\ FourPart(lbl) =>
              /\ Len(dblog) >= 1
              /\ dblog[1].table = "mf_newforms" /\ dblog[1].op = "lookup"
              /\ dblog[1].result = None =>
                    (err = NotFoundError(lbl) /\ newform = None /\ Len(dblog) = 1)

\* C5: every DimGrid obtained from the default constructor, from from_db of a
\* row of integers or from additions of such grids has, in each of the rows
\* M, S and E, all = new + old.
C5_AllIsNewPlusOld ==
    IsGrid(acc) =>
        \A X \in Spaces : acc.grid[X]["all"] = acc.grid[X]["new"] + acc.grid[X]["old"]

\* A sum of two grids built from rows, with non-zero cells in every column.
C5_Witness ==
    /\ IsGrid(acc)
    /\ operands # <<>>
    /\ IsGrid(operands[1]) /\ IsGrid(operands[2])
    /\ operands[1] # DimGrid(None) /\ operands[2] # DimGrid(None)
    /\ acc.grid["M"]["all"] = 2 /\ acc.grid["M"]["new"] = 1 /\ acc.grid["M"]["old"] = 1

\* The neutral summands: the all-zero grid, and the integer 0 that stands for
\* an absent grid (what sum() starts from).
Neutral == {DimGrid(None), IntV(0)}

SameCells(x, g) ==
    /\ IsGrid(x)
    /\ \A X \in Spaces, typ \in Types : x.grid[X][typ] = g.grid[X][typ]

\* C6: `+` on DimGrids is a commutative monoid: a + b and b + a agree cell
\* by cell, (a + b) + c = a + (b + c), and adding the all-zero grid or the
\* integer 0 of an absent summand, on either side, gives a grid with the
\* cells of the other operand and does not raise.
C6_CommutativeMonoid ==
    operands # <<>> =>
        LET a == operands[1]
            b == operands[2]
        IN  /\ (IsGrid(a) /\ IsGrid(b)) =>
                  /\ IsGrid(acc)
                  /\ SameCells(PyAdd(b, a), acc)
                  /\ \A row \in DimRows :
                        PyAdd(acc, from_db(row)) = PyAdd(a, PyAdd(b, from_db(row)))
            /\ (IsGrid(a) /\ b \in Neutral) => SameCells(acc, a)
            /\ (IsGrid(b) /\ a \in Neutral) => SameCells(acc, b)

\* The pieces of a formatted expansion: what stands between each "\(" and
\* the "\)" that follows it.
RECURSIVE PiecesFrom(_, _)
PiecesFrom(s, i) ==
    IF i > Len(s) \/ s[i] # "\\(" THEN <<>>
    ELSE LET close == CHOOSE k \in (i + 1)..(Len(s) + 1) :
                         /\ k = Len(s) + 1 \/ s[k] = "\\)"
                         /\ \A m \in (i + 1)..(k - 1) : s[m] # "\\)"
         IN  <<SubSeq(s, i + 1, close - 1)>> \o PiecesFrom(s, close + 1)

Pieces(s) == PiecesFrom(s, 1)

RECURSIVE Delimited(_)
Delimited(ps) ==
    IF ps = <<>> THEN <<>>
    ELSE <<"\\(">> \o Head(ps) \o <<"\\)">> \o Delimited(Tail(ps))

\* The powers j whose combined coefficient sum_i beta_i*eigseq[j][i] is not zero.
NonzeroPowers(eigs) ==
    {j \in 0..(Len(eigs) - 1) : \E i \in 1..Len(eigs[1]) : eigs[j + 1][i] # 0}

\* The k-th smallest element of the set J of numbers.
Kth(J, k) == CHOOSE j \in J : Cardinality({m \in J : m < j}) = k - 1

\* C7: for an empty input the formatter returns exactly 'O(1)'; otherwise it
\* emits, in increasing order of the power, one term for exactly the powers
\* whose combined coefficient is not zero, puts a '+' in front of a term
\* exactly when it is not the first emitted and its rendering does not start
\* with a minus sign, and ends with the remainder marker O(q^prec).
C7_Format ==
    qout # <<>> =>
        IF eigseq = <<>> THEN qout[1] = <<"O(1)">>
        ELSE LET s == qout[1]
                 ps == Pieces(s)
                 J == NonzeroPowers(eigseq)
                 n == Cardinality(J)
             IN  /\ s = Delimited(ps)
                 /\ Len(ps) = n + 1
                 /\ ps[n + 1] = <<"+", "O(q^{">> \o StrNat(Len(eigseq)) \o <<"})">>
                 /\ \A k \in 1..n :
                       LET j == Kth(J, k)
                           body == Latex(Term(eigseq[j + 1], Len(eigseq[1])), j)
                       IN  ps[k] = IF k > 1 /\ body[1] # "-"
                                   THEN <<"+">> \o body
                                   ELSE body

\* The example of the source: [[0,0],[1,3]] gives the one term (3 beta_1 + 1) q
\* and the remainder O(q^2).
C7_Witness ==
    /\ eigseq = << <<0, 0>>, <<1, 3>> >>
    /\ qout = << <<"\\(", "\\left(", "3", "\\beta_{", "1", "}", "+", "1", "\\right)", "q", "\\)",
                  "\\(", "+", "O(q^{", "2", "})", "\\)">> >>

\* The answer of the Hecke-eigenvalue search of the request, once made.
HasSearch == Len(dblog) >= 3 /\ dblog[3].table = "mf_hecke_nf"

SearchRows == dblog[3].result

\* The indices of the rows are exactly 1, 2, ..., Len(rows), in that order.
GapFree(rows) == \A i \in 1..Len(rows) : rows[i].n = i

HasVector(row) == row.an # None /\ row.an.v # <<>>

MissingEigenvalue == Raise("ValueError", <<"Missing eigenvalue">>)

\* C2 as stated: whenever the indices of the returned rows are not exactly
\* 1..k in that order (a gap anywhere in the sequence) construction fails
\* with the 'missing eigenvalue' error, and when they are it succeeds.
C2_GapAnywhereFails ==
    (pc # "idle" /\ HasSearch) =>
        /\ ~GapFree(SearchRows) => err = MissingEigenvalue
        /\ GapFree(SearchRows) => pc = "ready"

\* The rows the constructor reads: up to and including the first row that
\* has no eigenvalue vector, all of them when every row has one.
ReadRows(rows) ==
    LET stops == {i \in 1..Len(rows) : ~HasVector(rows[i])}
    IN  IF stops = {} THEN rows
        ELSE SubSeq(rows, 1, CHOOSE i \in stops : \A m \in stops : i <= m)

\* C2, amended: construction fails with the 'missing eigenvalue' error
\* exactly when the indices of the rows read (those up to and including the
\* first trace-only row, all rows when every row carries a vector) are not
\* 1, 2, ..., m in that order, and succeeds otherwise; so with a vector in
\* every row the indices [1,2,4] fail and [1,2,3] succeed.
C2_GapInReadRowsFails ==
    (pc # "idle" /\ HasSearch) =>
        /\ ~GapFree(ReadRows(SearchRows)) => (pc = "failed" /\ err = MissingEigenvalue)
        /\ GapFree(ReadRows(SearchRows)) => (pc = "ready" /\ err = None)
        /\ (\A i \in 1..Len(SearchRows) : HasVector(SearchRows[i])) =>
              (err = MissingEigenvalue <=> ~GapFree(SearchRows))

\* Three rows with vectors and the indices 1, 2, 4: the construction failed.
C2_Witness ==
    /\ pc = "failed" /\ HasSearch
    /\ Len(SearchRows) = 3
    /\ SearchRows[1].n = 1 /\ SearchRows[2].n = 2 /\ SearchRows[3].n = 4
    /\ \A i \in 1..3 : HasVector(SearchRows[i])
    /\ err = MissingEigenvalue

\* C10: after a successful construction has_exact_qexp is true if and only
\* if every returned row carries a full eigenvalue vector, and q_expansion on
\* a trace-only record returns the fixed q + O(q^2), whatever the format and
\* prec_max and whatever exact coefficients were collected before the first
\* trace-only row.
C10_ExactIffAllVectors ==
    (pc = "ready" /\ HasSearch) =>
        /\ newform.has_exact_qexp <=> (\A i \in 1..Len(SearchRows) : HasVector(SearchRows[i]))
        /\ (out.call = "q_expansion" /\ ~newform.has_exact_qexp) =>
              out.ret = StrV(<<"q", "+", "O(q^{", "2", "})">>)

\* A record downgraded at its third row, with two exact coefficients
\* collected, asked for its whole q-expansion.
C10_Witness ==
    /\ pc = "ready" /\ HasSearch
    /\ Len(SearchRows) = 3
    /\ HasVector(SearchRows[1]) /\ HasVector(SearchRows[2]) /\ ~HasVector(SearchRows[3])
    /\ ~newform.has_exact_qexp
    /\ newform.qexp_prec = IntV(2)
    /\ out.call = "q_expansion" /\ out.args = <<"all", 2>>
    /\ out.ret = StrV(<<"q", "+", "O(q^{", "2", "})">>)

\* The letter code of a 1-indexed base-26 coding without a zero digit
\* (1 -> a, ..., 26 -> z, 27 -> aa).
RECURSIVE BijectiveCode(_)
BijectiveCode(i) ==
    IF i = 0 THEN <<>>
    ELSE BijectiveCode((i - 1) \div 26) \o <<LowerSeq[((i - 1) % 26) + 1]>>

\* C3 as stated: the derived char_orbit_label is the level, a dot and the
\* 1-indexed zero-digit-free base-26 letter code of the orbit index ("7.a",
\* "7.b", "7.aa" for level 7 and the indices 1, 2, 27).
C3_OneIndexedNoZeroDigit ==
    pc = "ready" =>
        newform.char_orbit_label =
            StrInt(newform.level) \o <<".">> \o BijectiveCode(newform.char_orbit)

\* The number a letter code stands for in base 26 with a = 0, ..., z = 25.
LetterValue(c) == CHOOSE k \in 0..25 : LowerSeq[k + 1] = c

RECURSIVE CodeValue(_)
CodeValue(code) ==
    IF code = <<>> THEN 0
    ELSE 26 * CodeValue(SubSeq(code, 1, Len(code) - 1)) + LetterValue(code[Len(code)])

\* C3, amended: the derived char_orbit_label is the level typeset between
\* \( and \), a dot, and the Cremona letter code of i - 1 for the orbit index
\* i >= 1: the base-26 numeral of i - 1 with the digits a = 0, ..., z = 25
\* and no leading a but for the code a itself, so 1 -> a, 2 -> b, 26 -> z,
\* 27 -> ba; level 7 gives "\(7\).a", "\(7\).b", "\(7\).ba"; and the mapping
\* from the index to the letter code is injective.
C3_CremonaCodeOfIndexMinusOne ==
    pc = "ready" =>
        LET lab == newform.char_orbit_label
            i == newform.char_orbit
            nd == Len(StrInt(newform.level))
            code == SubSeq(lab, nd + 4, Len(lab))
        IN  /\ SubSeq(lab, 1, nd + 3) = <<"\\(">> \o StrInt(newform.level) \o <<"\\)", ".">>
            /\ Len(code) >= 1
            /\ \A k \in 1..Len(code) : code[k] \in Lower
            /\ CodeValue(code) = i - 1
            /\ Len(code) > 1 => code[1] # "a"
            /\ (newform.level = 7 /\ i = 1) => lab = <<"\\(", "7", "\\)", ".", "a">>
            /\ (newform.level = 7 /\ i = 2) => lab = <<"\\(", "7", "\\)", ".", "b">>
            /\ (newform.level = 7 /\ i = 26) => lab = <<"\\(", "7", "\\)", ".", "z">>
            /\ (newform.level = 7 /\ i = 27) => lab = <<"\\(", "7", "\\)", ".", "b", "a">>
            /\ \A j \in OrbitIndices :
                  j # i => CharOrbitLabel(newform.level, j).v # lab

\* The 27th orbit of level 7.
C3_Witness ==
    /\ pc = "ready"
    /\ newform.level = 7 /\ newform.char_orbit = 27
    /\ newform.char_orbit_label = <<"\\(", "7", "\\)", ".", "b", "a">>

NotCM == Raise("ValueError", <<"Not CM">>)

\* C8: cm_field_knowl fails with the 'Not CM' error whenever the record has
\* no CM discriminant (cm_disc 0, null or missing), and for a non-zero
\* discriminant D returns the field knowl of the label "2.0.<-D>.1".
C8_NotCMWithoutDiscriminant ==
    (pc = "ready" /\ out.call = "cm_field_knowl") =>
        /\ newform.cm_disc \in {Absent, None, IntV(0)} => out.ret = NotCM
        /\ newform.cm_disc \notin {Absent, None, IntV(0)} =>
              LET cm_label == <<"2.0.">> \o StrInt(-newform.cm_disc.v) \o <<".1">>
              IN  out.ret = StrV(nf_display_knowl(cm_label, field_pretty(cm_label)))

\* C9 as stated: field_display returns the literal rationals symbol when the
\* record has no coefficient-field label, a different value for the label
\* "1.1.1.1", and raises in neither case.
C9_RationalsWhenNoLabel ==
    (pc = "ready" /\ out.call = "field_display") =>
        /\ newform.nf_label \in {Absent, None} => out.ret = StrV(<<"\\(\\Q\\)">>)
        /\ newform.nf_label = StrV(<<"1.1.1.1">>) =>
              (out.ret.t = "str" /\ out.ret # StrV(<<"\\(\\Q\\)">>))

Occurs(token, tokens) == \E k \in 1..Len(tokens) : tokens[k] = token

\* C9, amended: field_display returns the literal generic coefficient-field
\* symbol \(\Q(\nu)\) when the record has no coefficient-field label, and for
\* the label "1.1.1.1" a different value, the knowl of that field shown as
\* the rationals symbol \(\Q\); it raises in neither case.
C9_GenericSymbolWhenNoLabel ==
    (pc = "ready" /\ out.call = "field_display") =>
        /\ out.ret.t = "str"
        /\ newform.nf_label \in {Absent, None} => out.ret = StrV(<<"\\(\\Q(\\nu)\\)">>)
        /\ newform.nf_label = StrV(<<"1.1.1.1">>) =>
              /\ out.ret # StrV(<<"\\(\\Q(\\nu)\\)">>)
              /\ Occurs("1.1.1.1", out.ret.v)
              /\ Occurs("\\(\\Q\\)", out.ret.v)
              /\ ~Occurs("\\(\\Q(\\nu)\\)", out.ret.v)

\* field_display on a record whose row has no nf_label column.
C9_Witness ==
    /\ pc = "ready" /\ out.call = "field_display"
    /\ newform.nf_label = Absent
    /\ out.ret = StrV(<<"\\(\\Q(\\nu)\\)">>)

====
